---- MODULE Spec2Model ----
(***************************************************************************)
(* Model of the command-line front ends of hurl:                           *)
(*   - hurlfmt's main (packages/hurlfmt/src/main.rs): the pipeline         *)
(*     get_matches -> additional checks -> input checks -> in-place checks *)
(*     -> read -> parse -> check mode | format mode -> write_output.       *)
(*   - hurl's parse_options and variables                                  *)
(*     (packages/hurl/src/cli/options.rs).                                 *)
(* SpecFmt runs one hurlfmt invocation, SpecOpts one parse_options call,   *)
(* SpecVars one variables() call.                                          *)
(***************************************************************************)
EXTENDS Integers, Sequences, FiniteSets, TLC

\* An absent Option<&str> (None).
NoneV == "<none>"

\* The destination write_output uses for Option::None: standard output.
StdoutDest == "<stdout>"

(***************************************************************************)
(* Bounds of the model.                                                    *)
(***************************************************************************)
\* Most lint diagnostics hurl_file.errors() returns for one document.
MaxDiag == 2
\* Most entries of the process environment.
MaxEnv == 2
\* Most lines of the variables file.
MaxLines == 2
\* Most --variable occurrences on the command line.
MaxInline == 2
\* Width of usize in bits (the pointer width of the target).
UsizeBits == 16

VARIABLES
    \* ---- hurlfmt main ----
    matches,       \* the command line, clap's ArgMatches once get_matches returned
    pc,            \* position in main
    filename,      \* main.rs:125
    output_file,   \* main.rs:191
    trace,         \* input/output steps performed so far, in order
    log,           \* messages and diagnostics logged so far, in order
    created,       \* path File::create created or truncated, or NoneV
    written,       \* destination the bytes were written to, or NoneV
    exit,          \* how the process ended: [kind, code, cause]
    errors,        \* hurl_file.errors() of the parsed document, <<>> before parsing
    output,        \* the renderer whose bytes main.rs:212 holds, or NoneV
    obs,           \* what the run has seen of its environment: "?", "yes" or "no"
    \* ---- hurl variables() ----
    vin,           \* the inputs of the call: [env, file, inline]
    vout,          \* Pending, or what the call returned
    \* ---- hurl parse_options ----
    flags,         \* the presence flags of the ArgMatches
    args,          \* the valued arguments read so far: Unread, or Read(value)
    locals,        \* the let-bindings made so far: Unbound, or Bound(value)
    opc,           \* position in parse_options
    oresult,       \* Pending, or what parse_options returned
    steps,         \* the validations performed so far, in order
    create_dir_calls  \* calls of std::fs::create_dir so far

fmtVars == <<matches, pc, filename, output_file, trace, log, created, written, exit,
             errors, output, obs>>

varVars == <<vin, vout>>

optVars == <<flags, args, locals, opc, oresult, steps, create_dir_calls>>

vars == <<fmtVars, varVars, optVars>>

(***************************************************************************)
(* Strings are sequences of one-character strings; Option<T> is a sequence *)
(* of at most one element.                                                 *)
(***************************************************************************)
None == <<>>
Some(x) == <<x>>
IsSome(o) == Len(o) = 1
Unwrap(o) == o[1]

Digits == {"0", "1", "2", "3", "4", "5", "6", "7", "8", "9"}
DigitValue(c) ==
    CASE c = "0" -> 0 [] c = "1" -> 1 [] c = "2" -> 2 [] c = "3" -> 3 [] c = "4" -> 4
      [] c = "5" -> 5 [] c = "6" -> 6 [] c = "7" -> 7 [] c = "8" -> 8 [] c = "9" -> 9

UsizeMax == 2 ^ UsizeBits - 1

\* The digit loop of core's from_str_radix(_, 10): checked_mul then checked_add,
\* an error (None) on a non-digit or on overflow past max.
RECURSIVE ParseDigits(_, _, _)
ParseDigits(s, acc, max) ==
    IF s = <<>> THEN Some(acc)
    ELSE IF Head(s) \notin Digits THEN None
    ELSE IF acc * 10 > max THEN None
    ELSE IF acc * 10 + DigitValue(Head(s)) > max THEN None
    ELSE ParseDigits(Tail(s), acc * 10 + DigitValue(Head(s)), max)

\* str::parse::<usize>() / parse::<u64>(): Some(n) for Ok(n), None for Err.  An
\* unsigned type takes an optional leading "+", never a "-"; the empty string and
\* a lone sign are errors.
ParseUnsigned(s, max) ==
    IF s = <<>> THEN None
    ELSE IF Len(s) = 1 /\ Head(s) \in {"+", "-"} THEN None
    ELSE IF Head(s) = "+" THEN ParseDigits(Tail(s), 0, max)
    ELSE ParseDigits(s, 0, max)

\* str::trim
IsSpace(c) == c \in {" ", "\t"}
RECURSIVE TrimStart(_)
TrimStart(s) == IF s # <<>> /\ IsSpace(Head(s)) THEN TrimStart(Tail(s)) ELSE s
RECURSIVE TrimEnd(_)
TrimEnd(s) ==
    IF s # <<>> /\ IsSpace(s[Len(s)]) THEN TrimEnd(SubSeq(s, 1, Len(s) - 1)) ELSE s
Trim(s) == TrimEnd(TrimStart(s))

\* str::strip_prefix: Some(rest) when s starts with prefix.
StripPrefix(s, prefix) ==
    IF Len(s) >= Len(prefix) /\ SubSeq(s, 1, Len(prefix)) = prefix
    THEN Some(SubSeq(s, Len(prefix) + 1, Len(s)))
    ELSE None

\* str::find('='): the first index holding c, 0 when there is none.
RECURSIVE FindChar(_, _, _)
FindChar(s, c, i) ==
    IF i > Len(s) THEN 0
    ELSE IF s[i] = c THEN i
    ELSE FindChar(s, c, i + 1)

(***************************************************************************)
(* Results: Ok(v) or Err(CliError).  line is the 1-based line the message  *)
(* names, 0 when the message names no line.                                *)
(***************************************************************************)
Ok(v) == [ok |-> TRUE, val |-> Some(v), err |-> None]
CliError(message, line) == [message |-> message, line |-> line]
Err(e) == [ok |-> FALSE, val |-> None, err |-> Some(e)]

(***************************************************************************)
(* hurl: variables                                                         *)
(***************************************************************************)
\* cli::parse_variable_value: the typed Value of a textual token.
parse_variable_value(s) ==
    IF s = <<"t", "r", "u", "e">> THEN Ok([type |-> "bool", v |-> 1])
    ELSE IF s = <<"f", "a", "l", "s", "e">> THEN Ok([type |-> "bool", v |-> 0])
    ELSE IF s = <<"n", "u", "l", "l">> THEN Ok([type |-> "null", v |-> 0])
    ELSE IF IsSome(ParseUnsigned(s, UsizeMax))
         THEN Ok([type |-> "integer", v |-> Unwrap(ParseUnsigned(s, UsizeMax))])
    ELSE IF s # <<>> /\ Head(s) = "\""
         THEN IF Len(s) >= 2 /\ s[Len(s)] = "\""
              THEN Ok([type |-> "string", v |-> SubSeq(s, 2, Len(s) - 1)])
              ELSE Err(CliError("Value should end with a double quote", 0))
    ELSE Ok([type |-> "string", v |-> s])

\* cli::parse_variable: name=value split at the first "=".
parse_variable(s) ==
    LET index == FindChar(s, "=", 1) IN
    IF index = 0 THEN Err(CliError("Missing value for variable", 0))
    ELSE LET value == parse_variable_value(SubSeq(s, index + 1, Len(s))) IN
         IF value.ok THEN Ok([name |-> SubSeq(s, 1, index - 1), value |-> Unwrap(value.val)])
         ELSE value

\* HashMap::insert: the entry of name is added or overwritten.
Insert(map, name, value) ==
    [n \in DOMAIN map \cup {name} |-> IF n = name THEN value ELSE map[n]]

EmptyMap == [n \in {} |-> 0]

HURL_ == <<"H", "U", "R", "L", "_">>

\* options.rs:468-473: the environment loop, from entry i on.
RECURSIVE EnvLoop(_, _, _)
EnvLoop(env, i, map) ==
    IF i > Len(env) THEN Ok(map)
    ELSE LET name == StripPrefix(env[i].name, HURL_) IN
         IF ~IsSome(name) THEN EnvLoop(env, i + 1, map)
         ELSE LET value == parse_variable_value(env[i].value) IN
              IF ~value.ok THEN value
              ELSE EnvLoop(env, i + 1, Insert(map, Unwrap(name), Unwrap(value.val)))

\* A line BufReader::lines() cannot decode (invalid UTF-8).
Undecodable == <<"\\xFF">>

\* options.rs:495: the line is a comment or blank once trimmed.
SkippedLine(line) == (line # <<>> /\ Head(line) = "#") \/ line = <<>>

\* options.rs:485-500: the loop over the lines of the variables file, from line
\* index + 1 on.
RECURSIVE FileLoop(_, _, _)
FileLoop(lines, index, map) ==
    IF index >= Len(lines) THEN Ok(map)
    ELSE IF lines[index + 1] = Undecodable
         THEN Err(CliError("Can not parse line of file", index + 1))
    ELSE LET line == Trim(lines[index + 1]) IN
         IF SkippedLine(line) THEN FileLoop(lines, index + 1, map)
         ELSE LET nv == parse_variable(line) IN
              IF ~nv.ok THEN nv
              ELSE FileLoop(lines, index + 1,
                            Insert(map, Unwrap(nv.val).name, Unwrap(nv.val).value))

\* options.rs:503-509: the loop over the --variable occurrences, from i on.
RECURSIVE InlineLoop(_, _, _)
InlineLoop(input, i, map) ==
    IF i > Len(input) THEN Ok(map)
    ELSE LET nv == parse_variable(input[i]) IN
         IF ~nv.ok THEN nv
         ELSE InlineLoop(input, i + 1,
                         Insert(map, Unwrap(nv.val).name, Unwrap(nv.val).value))

\* Mutant of variables: the variables file is applied after the inline
\* assignments.
variablesFileLast(env, file, inline) ==
    LET fromEnv == EnvLoop(env, 1, EmptyMap) IN
    IF ~fromEnv.ok THEN fromEnv
    ELSE LET fromInline == InlineLoop(inline, 1, Unwrap(fromEnv.val)) IN
         IF ~fromInline.ok THEN fromInline
         ELSE IF ~IsSome(file) THEN fromInline
         ELSE IF ~Unwrap(file).exists
              THEN Err(CliError("Properties file does not exist", 0))
         ELSE FileLoop(Unwrap(file).lines, 0, Unwrap(fromInline.val))

\* options.rs:464-512.  env: the process environment; file: None, or
\* Some([exists, lines]) for --variables-file; inline: the --variable values.
variables(env, file, inline) ==
    LET fromEnv == EnvLoop(env, 1, EmptyMap) IN
    IF ~fromEnv.ok THEN fromEnv
    ELSE LET fromFile ==
                 IF ~IsSome(file) THEN fromEnv
                 ELSE IF ~Unwrap(file).exists
                      THEN Err(CliError("Properties file does not exist", 0))
                 ELSE FileLoop(Unwrap(file).lines, 0, Unwrap(fromEnv.val)) IN
         IF ~fromFile.ok THEN fromFile
         ELSE InlineLoop(inline, 1, Unwrap(fromFile.val))

\* All sequences over S of length at most n.
SeqsUpTo(S, n) == UNION {[1..k -> S] : k \in 0..n}

\* The inputs variables() is run on.
EnvNames == {HURL_ \o <<"a">>, HURL_ \o <<"b">>, <<"a">>}
EnvValues == {<<"1">>, <<"\"">>}
EnvEntries == [name : EnvNames, value : EnvValues]
Environments ==
    {e \in SeqsUpTo(EnvEntries, MaxEnv) :
        \A i, j \in 1..Len(e) : i # j => e[i].name # e[j].name}
FileLines ==
    {<<" ">>, <<" ", "#", "a", "=", "9">>, <<" ", "a", "=", "2", " ">>,
     <<"b", "=", "t", "r", "u", "e">>, <<"a">>, Undecodable}
VariablesFiles ==
    {None, Some([exists |-> FALSE, lines |-> <<>>])}
      \cup {Some([exists |-> TRUE, lines |-> l]) : l \in SeqsUpTo(FileLines, MaxLines)}
InlineValues == {<<"a", "=", "3">>, <<"b", "=", "4">>, <<"b">>}
Inlines == SeqsUpTo(InlineValues, MaxInline)

Pending == [ok |-> FALSE, val |-> None, err |-> None]
IdleVars ==
    /\ vin = [env |-> <<>>, file |-> None, inline |-> <<>>]
    /\ vout = Pending

InitVars ==
    /\ vin \in [env : Environments, file : VariablesFiles, inline : Inlines]
    /\ vout = Pending

\* One call of variables() on the inputs.
CallVariables ==
    /\ vout = Pending
    /\ vout' = variables(vin.env, vin.file, vin.inline)
    /\ UNCHANGED vin
    /\ UNCHANGED <<fmtVars, optVars>>

(***************************************************************************)
(* hurl: parse_options.  The ArgMatches is fixed before the call; the      *)
(* model draws each valued argument at the statement that reads it (no     *)
(* statement reads one before), within what the clap App accepts.          *)
(***************************************************************************)
Unread == <<>>
Read(v) == <<v>>
Unbound == <<>>
Bound(v) == <<v>>

\* options.rs:111-116, 138-142: json and no_output conflict.
FlagSets ==
    {f \in [json : BOOLEAN, no_output : BOOLEAN, test : BOOLEAN, progress : BOOLEAN,
            summary : BOOLEAN, verbose : BOOLEAN, interactive : BOOLEAN] :
        ~(f.json /\ f.no_output)}

NoArgs ==
    [cacert_file |-> Unread, connect_timeout |-> Unread, glob |-> Unread,
     report_html |-> Unread, max_redirects |-> Unread, max_time |-> Unread,
     to_entry |-> Unread, variable |-> Unread]

NoLocals ==
    [cacert_file |-> Unbound, connect_timeout |-> Unbound, glob_files |-> Unbound,
     html_dir |-> Unbound, interactive |-> Unbound, max_redirect |-> Unbound,
     output_type |-> Unbound, progress |-> Unbound, summary |-> Unbound,
     timeout |-> Unbound, to_entry |-> Unbound, variables |-> Unbound,
     verbose |-> Unbound]

OptStart(f, at) ==
    /\ flags = f
    /\ args = NoArgs
    /\ locals = NoLocals
    /\ opc = at
    /\ oresult = Pending
    /\ steps = <<>>
    /\ create_dir_calls = 0

InitOpts == \E f \in FlagSets : OptStart(f, "cacert_file")

IdleOpts ==
    OptStart([json |-> FALSE, no_output |-> FALSE, test |-> FALSE, progress |-> FALSE,
              summary |-> FALSE, verbose |-> FALSE, interactive |-> FALSE], "idle")

\* Mutant of Fail: the error is recorded but the function does not return, and
\* the failed step runs again.
FailWithoutReturn(message) ==
    /\ oresult' = Err(CliError(message, 0))
    /\ UNCHANGED opc

\* return Err(CliError { message })
Fail(message) ==
    /\ oresult' = Err(CliError(message, 0))
    /\ opc' = "returned"

\* options.rs:302-312
CacertFile ==
    /\ opc = "cacert_file"
    /\ steps' = Append(steps, "cacert_file")
    /\ \E a \in {None, Some("ca.pem")}, is_file \in BOOLEAN :
         /\ args' = [args EXCEPT !.cacert_file = Read(a)]
         /\ IF IsSome(a) /\ ~is_file
            THEN /\ Fail("File does not exist")
                 /\ UNCHANGED locals
            ELSE /\ locals' = [locals EXCEPT !.cacert_file = Bound(a)]
                 /\ opc' = "connect_timeout"
                 /\ UNCHANGED oresult
    /\ UNCHANGED <<flags, create_dir_calls>>
    /\ UNCHANGED <<fmtVars, varVars>>

\* ClientOptions::default().connect_timeout and .timeout (options.rs:316, 392),
\* in seconds; the value is set in the http module.
DefaultTimeout == 300

\* options.rs:315-325, 391-401: Some(seconds), None when the value does not parse
\* as u64 (the width of usize on the modelled target).
ParseTimeout(a) ==
    IF ~IsSome(a) THEN Some(DefaultTimeout) ELSE ParseUnsigned(Unwrap(a), UsizeMax)

TimeoutArgs == {None, Some(<<"5">>), Some(<<"5", "s">>)}

\* options.rs:313-325
ConnectTimeout ==
    /\ opc = "connect_timeout"
    /\ steps' = Append(steps, "connect_timeout")
    /\ \E a \in TimeoutArgs :
         /\ args' = [args EXCEPT !.connect_timeout = Read(a)]
         /\ IF ~IsSome(ParseTimeout(a))
            THEN /\ Fail("connect-timeout option can not be parsed")
                 /\ UNCHANGED locals
            ELSE /\ locals' = [locals EXCEPT !.connect_timeout = Bound(Unwrap(ParseTimeout(a)))]
                 /\ opc' = "glob_files"
                 /\ UNCHANGED oresult
    /\ UNCHANGED <<flags, create_dir_calls>>
    /\ UNCHANGED <<fmtVars, varVars>>

\* glob::glob on one pattern, against the files of the run: None for an invalid
\* pattern, else the entries in enumeration order, "" for an unreadable one.
GlobEntries(expr) ==
    CASE expr = "a*" -> Some(<<"a1", "a2">>)
      [] expr = "b*" -> Some(<<"b1">>)
      [] expr = "u*" -> Some(<<"u1", "">>)
      [] OTHER -> None

\* options.rs:528-544: the entries of one pattern are pushed in order.
RECURSIVE PushEntries(_, _, _)
PushEntries(entries, i, filenames) ==
    IF i > Len(entries) THEN Ok(filenames)
    ELSE IF entries[i] = "" THEN Err(CliError("Failed to read glob pattern", 0))
    ELSE PushEntries(entries, i + 1, Append(filenames, entries[i]))

\* options.rs:514-548
RECURSIVE GlobLoop(_, _, _)
GlobLoop(exprs, i, filenames) ==
    IF i > Len(exprs) THEN Ok(filenames)
    ELSE IF ~IsSome(GlobEntries(exprs[i]))
         THEN Err(CliError("Failed to read glob pattern", 0))
    ELSE LET pushed == PushEntries(Unwrap(GlobEntries(exprs[i])), 1, filenames) IN
         IF ~pushed.ok THEN pushed
         ELSE GlobLoop(exprs, i + 1, Unwrap(pushed.val))

match_glob_files(exprs) == GlobLoop(exprs, 1, <<>>)

GlobArgs == {<<>>, <<"b*", "a*">>, <<"a*", "[">>, <<"a*", "u*", "b*">>}

\* options.rs:326-335
GlobFiles ==
    /\ opc = "glob_files"
    /\ steps' = Append(steps, "glob_files")
    /\ \E a \in GlobArgs :
         /\ args' = [args EXCEPT !.glob = Read(a)]
         /\ IF ~match_glob_files(a).ok
            THEN /\ oresult' = match_glob_files(a)
                 /\ opc' = "returned"
                 /\ UNCHANGED locals
            ELSE /\ locals' = [locals EXCEPT
                                 !.glob_files = Bound(Unwrap(match_glob_files(a).val))]
                 /\ opc' = "html_dir"
                 /\ UNCHANGED oresult
    /\ UNCHANGED <<flags, create_dir_calls>>
    /\ UNCHANGED <<fmtVars, varVars>>

\* options.rs:336-357.  path: what is at the path ("absent", "dir", "file");
\* mkdir_ok: whether create_dir succeeds when it is called.
HtmlDir ==
    /\ opc = "html_dir"
    /\ steps' = Append(steps, "html_dir")
    /\ \E a \in {None, Some("report")}, path \in {"absent", "dir", "file"},
          mkdir_ok \in BOOLEAN :
         /\ args' = [args EXCEPT !.report_html = Read(a)]
         /\ IF ~IsSome(a)
            THEN /\ locals' = [locals EXCEPT !.html_dir = Bound(None)]
                 /\ opc' = "max_redirect"
                 /\ UNCHANGED <<oresult, create_dir_calls>>
            ELSE IF path = "absent"
            THEN /\ create_dir_calls' = create_dir_calls + 1
                 /\ IF mkdir_ok
                    THEN /\ locals' = [locals EXCEPT !.html_dir = Bound(a)]
                         /\ opc' = "max_redirect"
                         /\ UNCHANGED oresult
                    ELSE /\ Fail("Html dir can not be created")
                         /\ UNCHANGED locals
            ELSE IF path = "dir"
            THEN /\ locals' = [locals EXCEPT !.html_dir = Bound(a)]
                 /\ opc' = "max_redirect"
                 /\ UNCHANGED <<oresult, create_dir_calls>>
            ELSE /\ Fail("is not a valid directory")
                 /\ UNCHANGED <<locals, create_dir_calls>>
    /\ UNCHANGED flags
    /\ UNCHANGED <<fmtVars, varVars>>

\* Mutant of max_redirect: the "-1" sentinel is not recognised.
max_redirect_no_sentinel(a) ==
    IF ~IsSome(a) THEN Ok(Some(50))
    ELSE IF IsSome(ParseUnsigned(Unwrap(a), UsizeMax))
         THEN Ok(Some(Unwrap(ParseUnsigned(Unwrap(a), UsizeMax))))
    ELSE Err(CliError("max_redirs option can not be parsed", 0))

\* options.rs:365-376: Ok(Option<usize>), Some(50) without the flag, None
\* (unlimited) for "-1", else the value parsed as usize.
max_redirect(a) ==
    IF ~IsSome(a) THEN Ok(Some(50))
    ELSE IF Unwrap(a) = <<"-", "1">> THEN Ok(None)
    ELSE IF IsSome(ParseUnsigned(Unwrap(a), UsizeMax))
         THEN Ok(Some(Unwrap(ParseUnsigned(Unwrap(a), UsizeMax))))
    ELSE Err(CliError("max_redirs option can not be parsed", 0))

MaxRedirsArgs ==
    {None, Some(<<"-", "1">>), Some(<<"0">>), Some(<<"7">>), Some(<<"+", "7">>),
     Some(<<"0", "5", "0">>), Some(<<"6", "5", "5", "3", "5">>),
     Some(<<"1", "3", "1", "0", "7", "2">>), Some(<<"-", "2">>), Some(<<"-", "0">>),
     Some(<<>>), Some(<<"+">>), Some(<<"7", "a">>), Some(<<" ", "7">>),
     Some(<<"1", ".", "5">>)}

\* options.rs:358-376
MaxRedirect ==
    /\ opc = "max_redirect"
    /\ steps' = Append(steps, "max_redirect")
    /\ \E a \in MaxRedirsArgs :
         /\ args' = [args EXCEPT !.max_redirects = Read(a)]
         /\ IF ~max_redirect(a).ok
            THEN /\ oresult' = max_redirect(a)
                 /\ opc' = "returned"
                 /\ locals' = [locals EXCEPT !.interactive = Bound(flags.interactive)]
            ELSE /\ locals' = [locals EXCEPT
                                 !.interactive = Bound(flags.interactive),
                                 !.max_redirect = Bound(Unwrap(max_redirect(a).val))]
                 /\ opc' = "timeout"
                 /\ UNCHANGED oresult
    /\ UNCHANGED <<flags, create_dir_calls>>
    /\ UNCHANGED <<fmtVars, varVars>>

\* Mutant of output_type: the test flag does not suppress the output.
output_type_ignores_test(f) ==
    IF f.json THEN "Json"
    ELSE IF f.no_output THEN "NoOutput"
    ELSE "ResponseBody"

\* options.rs:381-387
output_type(f) ==
    IF f.json THEN "Json"
    ELSE IF f.no_output \/ f.test THEN "NoOutput"
    ELSE "ResponseBody"

\* options.rs:388
progress(f) == f.progress \/ f.test

\* options.rs:390
summary(f) == f.summary \/ f.test

\* options.rs:406
verbose(f) == f.verbose \/ f.interactive

\* options.rs:377-401
Timeout ==
    /\ opc = "timeout"
    /\ steps' = Append(steps, "max_time")
    /\ \E a \in TimeoutArgs :
         /\ args' = [args EXCEPT !.max_time = Read(a)]
         /\ IF ~IsSome(ParseTimeout(a))
            THEN /\ Fail("max_time option can not be parsed")
                 /\ locals' = [locals EXCEPT
                                 !.output_type = Bound(output_type(flags)),
                                 !.progress = Bound(progress(flags)),
                                 !.summary = Bound(summary(flags))]
            ELSE /\ locals' = [locals EXCEPT
                                 !.output_type = Bound(output_type(flags)),
                                 !.progress = Bound(progress(flags)),
                                 !.summary = Bound(summary(flags)),
                                 !.timeout = Bound(Unwrap(ParseTimeout(a)))]
                 /\ opc' = "to_entry"
                 /\ UNCHANGED oresult
    /\ UNCHANGED <<flags, create_dir_calls>>
    /\ UNCHANGED <<fmtVars, varVars>>

\* options.rs:451-462
to_entry(a) ==
    IF ~IsSome(a) THEN Ok(None)
    ELSE IF IsSome(ParseUnsigned(Unwrap(a), UsizeMax))
         THEN Ok(Some(Unwrap(ParseUnsigned(Unwrap(a), UsizeMax))))
    ELSE Err(CliError("Invalid value for option --to-entry - must be a positive integer!", 0))

\* options.rs:106-108, 254-257: to_entry conflicts with interactive.
ToEntryArgs(f) ==
    IF f.interactive THEN {None} ELSE {None, Some(<<"3">>), Some(<<"-", "3">>)}

\* options.rs:402
ToEntry ==
    /\ opc = "to_entry"
    /\ steps' = Append(steps, "to_entry")
    /\ \E a \in ToEntryArgs(flags) :
         /\ args' = [args EXCEPT !.to_entry = Read(a)]
         /\ IF ~to_entry(a).ok
            THEN /\ oresult' = to_entry(a)
                 /\ opc' = "returned"
                 /\ UNCHANGED locals
            ELSE /\ locals' = [locals EXCEPT !.to_entry = Bound(Unwrap(to_entry(a).val))]
                 /\ opc' = "variables"
                 /\ UNCHANGED oresult
    /\ UNCHANGED <<flags, create_dir_calls>>
    /\ UNCHANGED <<fmtVars, varVars>>

\* The environment, variables file and --variable values of a parse_options call.
VariableArgs ==
    {[env |-> <<>>, file |-> None, inline |-> <<>>],
     [env |-> <<[name |-> HURL_ \o <<"a">>, value |-> <<"1">>]>>,
      file |-> Some([exists |-> TRUE, lines |-> <<<<"a", "=", "2">>>>]),
      inline |-> <<<<"a", "=", "3">>>>],
     [env |-> <<[name |-> HURL_ \o <<"a">>, value |-> <<"\"">>]>>,
      file |-> None, inline |-> <<>>],
     [env |-> <<>>, file |-> Some([exists |-> FALSE, lines |-> <<>>]), inline |-> <<>>],
     [env |-> <<>>, file |-> None, inline |-> <<<<"a">>>>]}

\* options.rs:403-405
Variables ==
    /\ opc = "variables"
    /\ steps' = Append(steps, "variables")
    /\ \E a \in VariableArgs :
         LET r == variables(a.env, a.file, a.inline) IN
         /\ args' = [args EXCEPT !.variable = Read(a)]
         /\ IF ~r.ok
            THEN /\ oresult' = r
                 /\ opc' = "returned"
                 /\ UNCHANGED locals
            ELSE /\ locals' = [locals EXCEPT !.variables = Bound(Unwrap(r.val))]
                 /\ opc' = "return"
                 /\ UNCHANGED oresult
    /\ UNCHANGED <<flags, create_dir_calls>>
    /\ UNCHANGED <<fmtVars, varVars>>

\* options.rs:408-438: the CliOptions built from the bindings.
CliOptions(l) ==
    [cacert_file |-> Unwrap(l.cacert_file),
     connect_timeout |-> Unwrap(l.connect_timeout),
     glob_files |-> Unwrap(l.glob_files),
     html_dir |-> Unwrap(l.html_dir),
     interactive |-> Unwrap(l.interactive),
     max_redirect |-> Unwrap(l.max_redirect),
     output_type |-> Unwrap(l.output_type),
     progress |-> Unwrap(l.progress),
     summary |-> Unwrap(l.summary),
     timeout |-> Unwrap(l.timeout),
     to_entry |-> Unwrap(l.to_entry),
     variables |-> Unwrap(l.variables),
     verbose |-> Unwrap(l.verbose)]

\* options.rs:406-438
Return ==
    /\ opc = "return"
    /\ locals' = [locals EXCEPT !.verbose = Bound(verbose(flags))]
    /\ oresult' = Ok(CliOptions(locals'))
    /\ opc' = "returned"
    /\ UNCHANGED <<flags, args, steps, create_dir_calls>>
    /\ UNCHANGED <<fmtVars, varVars>>

NextOpts ==
    \/ CacertFile
    \/ ConnectTimeout
    \/ GlobFiles
    \/ HtmlDir
    \/ MaxRedirect
    \/ Timeout
    \/ ToEntry
    \/ Variables
    \/ Return

(***************************************************************************)
(* hurlfmt: command line                                                   *)
(***************************************************************************)
InputArgs == {NoneV, "-", "a.hurl"}
FormatArgs == {NoneV, "text", "json", "html", "ast", "xml"}
OutputArgs == {NoneV, "out.hurl"}

\* help and version are the flags clap adds to an App by itself (version because
\* main.rs:45 sets one).
ArgvSet ==
    [INPUT : InputArgs, check : BOOLEAN, color : BOOLEAN, format : FormatArgs,
     help : BOOLEAN, in_place : BOOLEAN, no_color : BOOLEAN, no_format : BOOLEAN,
     output : OutputArgs, standalone : BOOLEAN, version : BOOLEAN]

\* The command line asks for the help or the version text.
ClapDisplays(a) == a.help \/ a.version

\* The conflicts_with declarations of the clap App (symmetric in clap).
ClapConflict(a) ==
    \/ a.check /\ a.format # NoneV
    \/ a.check /\ a.output # NoneV
    \/ a.color /\ a.no_color
    \/ a.color /\ a.in_place
    \/ a.in_place /\ a.output # NoneV

Running == [kind |-> "running", code |-> -1, cause |-> "none"]
ProcessExit(c, why) == [kind |-> "exit", code |-> c, cause |-> why]
\* A Rust panic unwinds out of main: the process aborts with status 101.
Panic(why) == [kind |-> "panic", code |-> 101, cause |-> why]

Msg(t) == [kind |-> "message", text |-> t]
Diag(i) == [kind |-> "lint", id |-> i]

\* matches.value_of("format").unwrap_or("text")
FormatOrText(m) == IF m.format = NoneV THEN "text" ELSE m.format

FmtStart(m, at) ==
    /\ matches = m
    /\ pc = at
    /\ filename = NoneV
    /\ output_file = NoneV
    /\ trace = <<>>
    /\ log = <<>>
    /\ created = NoneV
    /\ written = NoneV
    /\ exit = Running
    /\ errors = <<>>
    /\ output = NoneV
    /\ obs = [tty |-> "?", help |-> "?", exists |-> "?", read |-> "?", parse |-> "?",
              create |-> "?", write |-> "?"]

InitFmt == \E m \in ArgvSet : FmtStart(m, "get_matches")

\* No hurlfmt run: the model is about hurl's option resolution.
IdleFmt ==
    FmtStart([INPUT |-> NoneV, check |-> FALSE, color |-> FALSE, format |-> NoneV,
              help |-> FALSE, in_place |-> FALSE, no_color |-> FALSE,
              no_format |-> FALSE, output |-> NoneV, standalone |-> FALSE,
              version |-> FALSE], "idle")

\* main.rs:106: clap prints the help or version text and ends the process with
\* status 0 as soon as it meets the flag, before it validates the rest; it ends
\* the process with a usage error (status 2) when the command line breaks a
\* conflicts_with rule; otherwise main goes on with matches.
GetMatches ==
    /\ pc = "get_matches"
    /\ IF ClapDisplays(matches)
       THEN /\ pc' = "exited"
            /\ exit' = ProcessExit(0, "clap_display")
       ELSE IF ClapConflict(matches)
       THEN /\ pc' = "exited"
            /\ exit' = ProcessExit(2, "clap")
       ELSE /\ pc' = "standalone_check"
            /\ UNCHANGED exit
    /\ UNCHANGED <<matches, filename, output_file, trace, log, created, written, errors, output, obs>>
    /\ UNCHANGED <<varVars, optVars>>

\* Mutant of StandaloneViolation: the standalone check is lost.
StandaloneUnchecked(m) == FALSE

\* main.rs:110: standalone is given and the format value is not html.
StandaloneViolation(m) == m.standalone /\ m.format # "html"

\* main.rs:109-113
StandaloneCheck ==
    /\ pc = "standalone_check"
    /\ IF StandaloneViolation(matches)
       THEN /\ log' = Append(log, Msg("use --standalone option only with html output"))
            /\ pc' = "exited"
            /\ exit' = ProcessExit(1, "standalone")
       ELSE /\ pc' = "input_check"
            /\ UNCHANGED <<log, exit>>
    /\ UNCHANGED <<matches, filename, output_file, trace, created, written, errors, output, obs>>
    /\ UNCHANGED <<varVars, optVars>>

\* main.rs:125-129
Filename(m) == IF m.INPUT = NoneV THEN "-" ELSE m.INPUT

\* main.rs:132-136: the usage text is printed and the process exits with status 1;
\* a failed print_help panics.
NoInputExit == ProcessExit(1, "no_input_tty")
HelpFailed == Panic("print_help")

\* Mutant of InputMissingExit: a missing input reported as a read failure.
InputMissingAsReadFailure == ProcessExit(2, "input_missing")

\* main.rs:138-139
InputMissingExit == ProcessExit(1, "input_missing")

\* main.rs:125-140: the interactive-terminal test on stdin is made only for "-",
\* the existence test only for a named path.
InputCheck ==
    /\ pc = "input_check"
    /\ filename' = Filename(matches)
    /\ \/ /\ Filename(matches) = "-"
          /\ \E tty \in BOOLEAN, helpOk \in BOOLEAN :
               \/ /\ tty
                  /\ trace' = trace \o <<"atty_stdin", "print_help">>
                  /\ obs' = [obs EXCEPT !.tty = "yes",
                                        !.help = IF helpOk THEN "yes" ELSE "no"]
                  /\ pc' = "exited"
                  /\ exit' = IF helpOk THEN NoInputExit ELSE HelpFailed
               \/ /\ ~tty
                  /\ trace' = Append(trace, "atty_stdin")
                  /\ obs' = [obs EXCEPT !.tty = "no"]
                  /\ pc' = "in_place_check"
                  /\ UNCHANGED exit
          /\ UNCHANGED log
       \/ /\ Filename(matches) # "-"
          /\ trace' = Append(trace, "path_exists")
          /\ \E exists \in BOOLEAN :
               \/ /\ ~exists
                  /\ obs' = [obs EXCEPT !.exists = "no"]
                  /\ log' = Append(log, Msg("Input file does not exit!"))
                  /\ pc' = "exited"
                  /\ exit' = InputMissingExit
               \/ /\ exists
                  /\ obs' = [obs EXCEPT !.exists = "yes"]
                  /\ pc' = "in_place_check"
                  /\ UNCHANGED <<log, exit>>
    /\ UNCHANGED <<matches, output_file, created, written, errors, output>>
    /\ UNCHANGED <<varVars, optVars>>

\* Mutant of InPlaceStdin: the test of the input being standard input is lost.
InPlaceStdinUnchecked(m, f) == FALSE

\* main.rs:142-143: in-place on standard input.
InPlaceStdin(m, f) == m.in_place /\ f = "-"

\* main.rs:142, 150: in-place with a format other than text.
InPlaceNotText(m) == m.in_place /\ FormatOrText(m) # "text"

\* main.rs:142-154
InPlaceCheck ==
    /\ pc = "in_place_check"
    /\ IF InPlaceStdin(matches, filename)
       THEN /\ log' = Append(log, Msg("You can not use --in-place with standard input stream!"))
            /\ pc' = "exited"
            /\ exit' = ProcessExit(1, "in_place_stdin")
       ELSE IF InPlaceNotText(matches)
       THEN /\ log' = Append(log, Msg("You can use --in-place only text format!"))
            /\ pc' = "exited"
            /\ exit' = ProcessExit(1, "in_place_format")
       ELSE /\ pc' = "read"
            /\ UNCHANGED <<log, exit>>
    /\ UNCHANGED <<matches, filename, output_file, trace, created, written, errors, output, obs>>
    /\ UNCHANGED <<varVars, optVars>>

\* Mutant of OutputFile: the in-place modifier does not redirect the output.
OutputFileIgnoresInPlace(m, f) == m.output

\* main.rs:191-195
OutputFile(m, f) == IF m.in_place THEN f ELSE m.output

\* main.rs:163, 174
ReadFailedExit == ProcessExit(2, "read_error")

\* main.rs:156-199: read the whole input (stdin or the named file); a failed read
\* ends the process with status 2.
ReadContents ==
    /\ pc = "read"
    /\ trace' = Append(trace, "read")
    /\ \/ /\ obs' = [obs EXCEPT !.read = "yes"]
          /\ output_file' = OutputFile(matches, filename)
          /\ pc' = "parse"
          /\ UNCHANGED <<log, exit>>
       \/ /\ obs' = [obs EXCEPT !.read = "no"]
          /\ log' = Append(log, Msg("Input stream can not be read"))
          /\ pc' = "exited"
          /\ exit' = ReadFailedExit
          /\ UNCHANGED output_file
    /\ UNCHANGED <<matches, filename, created, written, errors, output>>
    /\ UNCHANGED <<varVars, optVars>>

\* hurl_file.errors(): the lint diagnostics of a parsed document, in order.
Diagnostics(n) == [i \in 1..n |-> Diag(i)]

\* main.rs:201-204
ParseFailedExit == ProcessExit(2, "parse_error")

\* main.rs:206, 211: check mode when the check modifier is present, else format mode.
ModeAfterParse(m) == IF m.check THEN "check_mode" ELSE "format_mode"

\* main.rs:200-205: parse_hurl_file either fails (status 2) or returns the
\* document, which carries 0..MaxDiag lint diagnostics.
Parse ==
    /\ pc = "parse"
    /\ trace' = Append(trace, "parse")
    /\ \/ /\ obs' = [obs EXCEPT !.parse = "no"]
          /\ log' = Append(log, Msg("parser error"))
          /\ pc' = "exited"
          /\ exit' = ParseFailedExit
          /\ UNCHANGED errors
       \/ /\ obs' = [obs EXCEPT !.parse = "yes"]
          /\ \E n \in 0..MaxDiag : errors' = Diagnostics(n)
          /\ pc' = ModeAfterParse(matches)
          /\ UNCHANGED <<log, exit>>
    /\ UNCHANGED <<matches, filename, output_file, created, written, output>>
    /\ UNCHANGED <<varVars, optVars>>

\* main.rs:207-209: log_linter_error on every diagnostic, in order.
LogLinterErrors(l, es) == l \o es

\* Mutant of CheckExit: check mode reports success when nothing was found.
CheckExitClean ==
    IF errors = <<>> THEN ProcessExit(0, "check") ELSE ProcessExit(1, "check")

\* main.rs:210: check mode always ends with status 1.
CheckExit == ProcessExit(1, "check")

\* Mutant of CheckMode: the exit after the diagnostics is lost and main falls
\* through to the format match.
CheckModeFallsThrough ==
    /\ pc = "check_mode"
    /\ trace' = Append(trace, "lint")
    /\ log' = LogLinterErrors(log, errors)
    /\ pc' = "format_mode"
    /\ UNCHANGED <<matches, filename, output_file, created, written, exit, errors, output, obs>>
    /\ UNCHANGED <<varVars, optVars>>

\* main.rs:206-210
CheckMode ==
    /\ pc = "check_mode"
    /\ trace' = Append(trace, "lint")
    /\ log' = LogLinterErrors(log, errors)
    /\ pc' = "exited"
    /\ exit' = CheckExit
    /\ UNCHANGED <<matches, filename, output_file, created, written, errors, output, obs>>
    /\ UNCHANGED <<varVars, optVars>>

\* Mutant of Render: an unknown format value falls back to text.
RenderDefaultsToText(m) ==
    CASE FormatOrText(m) = "json" -> "json"
      [] FormatOrText(m) = "html" -> IF m.standalone THEN "html_standalone" ELSE "html"
      [] FormatOrText(m) = "ast" -> "ast"
      [] OTHER -> IF m.no_format THEN "text" ELSE "text_linted"

\* main.rs:212-231: the renderer the format value selects, NoneV for the _ arm.
Render(m) ==
    CASE FormatOrText(m) = "text" -> IF m.no_format THEN "text" ELSE "text_linted"
      [] FormatOrText(m) = "json" -> "json"
      [] FormatOrText(m) = "html" -> IF m.standalone THEN "html_standalone" ELSE "html"
      [] FormatOrText(m) = "ast" -> "ast"
      [] OTHER -> NoneV

\* main.rs:211-232
FormatMode ==
    /\ pc = "format_mode"
    /\ IF Render(matches) = NoneV
       THEN /\ log' = Append(log, Msg("Invalid output option - expecting text, html or json"))
            /\ pc' = "exited"
            /\ exit' = ProcessExit(1, "invalid_format")
            /\ UNCHANGED <<trace, output>>
       ELSE /\ trace' = Append(trace, "render")
            /\ output' = Render(matches)
            /\ pc' = "write_output"
            /\ UNCHANGED <<log, exit>>
    /\ UNCHANGED <<matches, filename, output_file, created, written, errors, obs>>
    /\ UNCHANGED <<varVars, optVars>>

\* Mutant of CreateFailed: the failure is reported but the status is success.
CreateFailedExitsZero == ProcessExit(0, "create_error")

\* main.rs:250-256: a failed File::create is reported and ends the process with
\* status 1.
CreateFailed == ProcessExit(1, "create_error")

\* Mutant of WriteFailed: a failed write reported as an ordinary exit code.
WriteFailedAsExit == ProcessExit(2, "write_error")

\* main.rs:244-246, 257-258: write_all(..).expect(..) panics on a failed write.
WriteFailed == Panic("write_error")

\* main.rs:238-261, then main returns (status 0).
WriteOutput ==
    /\ pc = "write_output"
    /\ pc' = "exited"
    /\ \/ /\ output_file = NoneV
          /\ trace' = Append(trace, "write")
          /\ UNCHANGED <<created, log>>
          /\ \/ /\ obs' = [obs EXCEPT !.write = "yes"]
                /\ written' = StdoutDest
                /\ exit' = ProcessExit(0, "success")
             \/ /\ obs' = [obs EXCEPT !.write = "no"]
                /\ exit' = WriteFailed
                /\ UNCHANGED written
       \/ /\ output_file # NoneV
          /\ \/ /\ trace' = Append(trace, "create")
                /\ obs' = [obs EXCEPT !.create = "no"]
                /\ log' = Append(log, Msg("Issue writing"))
                /\ exit' = CreateFailed
                /\ UNCHANGED <<created, written>>
             \/ /\ trace' = trace \o <<"create", "write">>
                /\ created' = output_file
                /\ UNCHANGED log
                /\ \/ /\ obs' = [obs EXCEPT !.create = "yes", !.write = "yes"]
                      /\ written' = output_file
                      /\ exit' = ProcessExit(0, "success")
                   \/ /\ obs' = [obs EXCEPT !.create = "yes", !.write = "no"]
                      /\ exit' = WriteFailed
                      /\ UNCHANGED written
    /\ UNCHANGED <<matches, filename, output_file, errors, output>>
    /\ UNCHANGED <<varVars, optVars>>

NextFmt ==
    \/ GetMatches
    \/ StandaloneCheck
    \/ InputCheck
    \/ InPlaceCheck
    \/ ReadContents
    \/ Parse
    \/ CheckMode
    \/ FormatMode
    \/ WriteOutput

InitSpecFmt == InitFmt /\ IdleVars /\ IdleOpts

SpecFmt == InitSpecFmt /\ [][NextFmt]_vars

\* main is one sequential thread; every call it makes returns (blocking reads
\* and writes complete or fail), so a statement that can run does run.
SpecFmtFair == InitSpecFmt /\ [][NextFmt]_vars /\ WF_vars(NextFmt)

NextVars == CallVariables

InitSpecVars == InitVars /\ IdleFmt /\ IdleOpts

SpecVars == InitSpecVars /\ [][NextVars]_vars

InitSpecOpts == InitOpts /\ IdleFmt /\ IdleVars

SpecOpts == InitSpecOpts /\ [][NextOpts]_vars

(***************************************************************************)
(* Properties of hurlfmt (checked under SpecFmt).  The modifiers of a run   *)
(* are those of a command line clap accepted: a command line that breaks a *)
(* conflicts_with rule, or asks for the help or version text, never        *)
(* reaches main's own code.                                                *)
(***************************************************************************)
Accepted == ~ClapDisplays(matches) /\ ~ClapConflict(matches)
Exited == pc = "exited"
ExitedWith(c) == pc = "exited" /\ exit.kind = "exit" /\ exit.code = c
Performed(step) == \E i \in 1..Len(trace) : trace[i] = step
ValidFormats == {"text", "json", "html", "ast"}
InputSteps == {"atty_stdin", "print_help", "path_exists", "read", "parse"}
NoOutputWritten ==
    /\ created = NoneV
    /\ written = NoneV
    /\ ~Performed("create")
    /\ ~Performed("write")
    /\ pc # "write_output"

\* C2: with the check modifier present and the document parsed successfully, the
\* run ends with exit code 1 whatever the number of lint diagnostics; exactly the
\* diagnostics are logged, in order (nothing when there are none), and
\* WriteOutput is never performed.
C2_CheckAlwaysExitsOne ==
    (Accepted /\ matches.check /\ obs.parse = "yes") =>
        /\ NoOutputWritten
        /\ output = NoneV
        /\ pc \in {"check_mode", "exited"}
        /\ Exited => /\ ExitedWith(1)
                      /\ log = errors
                      /\ (errors = <<>> => log = <<>>)

C2_Witness ==
    /\ Accepted /\ matches.check /\ obs.parse = "yes"
    /\ ExitedWith(1)
    /\ errors = <<>> /\ log = <<>>

\* C3: a run whose named input path does not exist ends with exit code 1 without
\* reading or parsing; a run whose input is read but does not parse ends with
\* exit code 2; a run whose existing input cannot be read ends with exit code 2.
C3_InputFailureCodes ==
    /\ (Accepted /\ obs.exists = "no") =>
          /\ ExitedWith(1)
          /\ ~Performed("read") /\ ~Performed("parse")
    /\ (Accepted /\ obs.read = "yes" /\ obs.parse = "no") => ExitedWith(2)
    /\ (Accepted /\ obs.read = "no") =>
          /\ ExitedWith(2)
          /\ ~Performed("parse")

C3_Witness ==
    /\ Accepted /\ obs.exists = "yes" /\ obs.read = "yes" /\ obs.parse = "no"
    /\ matches.in_place /\ matches.no_format
    /\ ExitedWith(2)

\* C4 (as amended): a run with the in-place modifier on standard input (no
\* filename, or "-") never reads the input and never gets past the in-place
\* check; it ends with exit code 1, except that when standard input is an
\* interactive terminal and printing the usage text fails, it panics.
C4_InPlaceStdinNeverReads ==
    (Accepted /\ matches.in_place /\ Filename(matches) = "-") =>
        /\ ~Performed("read") /\ ~Performed("parse")
        /\ obs.read = "?"
        /\ pc \in {"get_matches", "standalone_check", "input_check",
                    "in_place_check", "exited"}
        /\ Exited => \/ ExitedWith(1)
                      \/ /\ exit = HelpFailed
                         /\ obs.tty = "yes" /\ obs.help = "no"

C4_Witness ==
    /\ Accepted /\ matches.in_place /\ Filename(matches) = "-"
    /\ ~StandaloneViolation(matches)
    /\ obs.tty = "no"
    /\ ExitedWith(1) /\ exit.cause = "in_place_stdin"

\* C4 as stated: every such run ends with exit code 1 and never reads the input,
\* whether or not standard input is an interactive terminal.
C4_Original ==
    (Accepted /\ matches.in_place /\ Filename(matches) = "-" /\ Exited) =>
        /\ ExitedWith(1)
        /\ ~Performed("read")

\* The two mutual-exclusion rules of hurlfmt.
StandaloneRuleBroken == matches.standalone /\ matches.format # "html"
InPlaceRuleBroken ==
    matches.in_place /\ (Filename(matches) = "-" \/ FormatOrText(matches) # "text")

\* C5 (as amended): a run breaking the standalone rule ends with exit code 1 for
\* that violation before any input-related step.  A run breaking only the
\* in-place rule is rejected after the interactive-terminal check on stdin or the
\* existence check of the named path, and before any read or parse: it ends
\* with exit code 1 for the violation unless one of those two checks ended the
\* run first.
C5_RulesBeforeRead ==
    /\ (Accepted /\ StandaloneRuleBroken) =>
          /\ trace = <<>>
          /\ pc \in {"get_matches", "standalone_check", "exited"}
          /\ Exited => ExitedWith(1) /\ exit.cause = "standalone"
    /\ (Accepted /\ InPlaceRuleBroken /\ ~StandaloneRuleBroken) =>
          /\ ~Performed("read") /\ ~Performed("parse")
          /\ pc \in {"get_matches", "standalone_check", "input_check",
                      "in_place_check", "exited"}
          /\ Exited =>
                \/ /\ ExitedWith(1)
                   /\ exit.cause \in {"in_place_stdin", "in_place_format"}
                   /\ trace \in {<<"atty_stdin">>, <<"path_exists">>}
                \/ /\ obs.tty = "yes"
                   /\ exit \in {NoInputExit, HelpFailed}
                \/ /\ obs.exists = "no"
                   /\ exit = InputMissingExit

C5_Witness ==
    /\ Accepted /\ InPlaceRuleBroken /\ ~StandaloneRuleBroken
    /\ FormatOrText(matches) = "json"
    /\ ExitedWith(1) /\ exit.cause = "in_place_format"
    /\ trace = <<"path_exists">>

\* C5 as stated: a run breaking either rule ends with exit code 1 for that
\* violation before any input-related step.
C5_Original ==
    (Accepted /\ (StandaloneRuleBroken \/ InPlaceRuleBroken) /\ Exited) =>
        /\ ExitedWith(1)
        /\ exit.cause \in {"standalone", "in_place_stdin", "in_place_format"}
        /\ \A i \in 1..Len(trace) : trace[i] \notin InputSteps

\* The destination the WriteOutput stage is meant to use.
ExpectedDestination ==
    IF matches.in_place THEN Filename(matches)
    ELSE IF matches.output # NoneV THEN matches.output
    ELSE StdoutDest

\* C6: at WriteOutput the destination is the source path when in-place, else the
\* explicit output path when given, else standard output; in-place and an
\* explicit output path are never both present there.
C6_WriteDestination ==
    (pc = "write_output" \/ Performed("create") \/ Performed("write")) =>
        /\ ~(matches.in_place /\ matches.output # NoneV)
        /\ (matches.in_place => Filename(matches) # "-")
        /\ (IF output_file = NoneV THEN StdoutDest ELSE output_file)
               = ExpectedDestination
        /\ (created # NoneV => created = ExpectedDestination)
        /\ (written # NoneV => written = ExpectedDestination)

C6_Witness ==
    /\ matches.in_place
    /\ ExitedWith(0)
    /\ written = "a.hurl" /\ created = "a.hurl"

\* C7 (as amended): failing to write the bytes, to the file or to standard
\* output, ends the process as a panic and never as exit code 0, 1 or 2; failing
\* to create the destination file ends the process with exit code 1.
C7_WriteFailures ==
    /\ obs.write = "no" =>
          /\ Exited /\ exit.kind = "panic" /\ exit.code \notin {0, 1, 2}
          /\ written = NoneV
    /\ obs.create = "no" =>
          /\ ExitedWith(1) /\ exit.cause = "create_error"
          /\ created = NoneV /\ written = NoneV

C7_Witness ==
    /\ obs.create = "yes" /\ obs.write = "no"
    /\ Exited /\ exit.kind = "panic"
    /\ created = "out.hurl"

\* C7 as stated: every failure of the WriteOutput stage, creating the file
\* included, ends the process as an abort and never as exit code 0, 1 or 2.
C7_Original ==
    ((obs.create = "no" \/ obs.write = "no") /\ Exited) =>
        /\ exit.kind = "panic"
        /\ exit.code \notin {0, 1, 2}

\* C8 (as amended): a run whose format value is not one of text, json, html, ast
\* never writes output and, once its input has been read and parsed, ends with
\* exit code 1 as a configuration error; a read or parse failure before that
\* ends it with exit code 2.
C8_InvalidFormat ==
    (Accepted /\ FormatOrText(matches) \notin ValidFormats) =>
        /\ NoOutputWritten
        /\ output = NoneV
        /\ (Exited /\ obs.parse = "yes") =>
              ExitedWith(1) /\ exit.cause = "invalid_format"
        /\ (Exited /\ (obs.read = "no" \/ obs.parse = "no")) => ExitedWith(2)
        /\ Exited => exit.code # 0

C8_Witness ==
    /\ Accepted /\ FormatOrText(matches) \notin ValidFormats
    /\ obs.parse = "yes"
    /\ ExitedWith(1) /\ exit.cause = "invalid_format"

\* C8 as stated: every run whose format value is not one of text, json, html, ast
\* ends with exit code 1 and writes no output (runs that end in a panic set aside).
C8_Original ==
    (Accepted /\ FormatOrText(matches) \notin ValidFormats /\ Exited
       /\ exit.kind = "exit") =>
        /\ ExitedWith(1)
        /\ NoOutputWritten

(***************************************************************************)
(* Properties of variables() (checked under SpecVars).                     *)
(***************************************************************************)
Max(S) == CHOOSE x \in S : \A y \in S : y <= x

\* What each source says about a name, read off the inputs of the call.
EnvIndexes(name) ==
    {i \in 1..Len(vin.env) : vin.env[i].name = HURL_ \o name}
FileLinesOf == IF IsSome(vin.file) THEN Unwrap(vin.file).lines ELSE <<>>
FileIndexes(name) ==
    {i \in 1..Len(FileLinesOf) :
        /\ FileLinesOf[i] # Undecodable
        /\ ~SkippedLine(Trim(FileLinesOf[i]))
        /\ parse_variable(Trim(FileLinesOf[i])).ok
        /\ Unwrap(parse_variable(Trim(FileLinesOf[i])).val).name = name}
InlineIndexes(name) ==
    {i \in 1..Len(vin.inline) :
        /\ parse_variable(vin.inline[i]).ok
        /\ Unwrap(parse_variable(vin.inline[i]).val).name = name}
VariableNames == {<<"a">>, <<"b">>}

Unsigned(s) == IF s # <<>> /\ Head(s) = "+" THEN Tail(s) ELSE s
IsNumeral(s) ==
    /\ Unsigned(s) # <<>>
    /\ \A i \in 1..Len(Unsigned(s)) : Unsigned(s)[i] \in Digits
RECURSIVE DigitsValue(_)
DigitsValue(d) ==
    IF d = <<>> THEN 0
    ELSE DigitsValue(SubSeq(d, 1, Len(d) - 1)) * 10 + DigitValue(d[Len(d)])
NumeralValue(s) == DigitsValue(Unsigned(s))

MaxRedirsRead == args.max_redirects # Unread
MaxRedirsArg == Unwrap(args.max_redirects)
MaxRedirsRejected ==
    /\ locals.max_redirect = Unbound
    /\ opc = "returned"
    /\ oresult = Err(CliError("max_redirs option can not be parsed", 0))

\* C9 (as amended): max_redirect resolves to the count 50 when the flag is absent,
\* to unlimited (None) for "-1", to the integer for any other decimal numeral
\* whose value fits in usize, and every other string, a numeral above
\* usize::MAX included, makes parse_options fail with an error and no CliOptions.
C9_MaxRedirect ==
    /\ MaxRedirsRead =>
         IF ~IsSome(MaxRedirsArg) THEN locals.max_redirect = Bound(Some(50))
         ELSE IF Unwrap(MaxRedirsArg) = <<"-", "1">> THEN locals.max_redirect = Bound(None)
         ELSE IF IsNumeral(Unwrap(MaxRedirsArg))
                 /\ NumeralValue(Unwrap(MaxRedirsArg)) <= UsizeMax
         THEN locals.max_redirect = Bound(Some(NumeralValue(Unwrap(MaxRedirsArg))))
         ELSE MaxRedirsRejected
    /\ oresult.ok =>
         /\ MaxRedirsRead
         /\ Bound(Unwrap(oresult.val).max_redirect) = locals.max_redirect

C9_Witness ==
    /\ oresult.ok
    /\ MaxRedirsArg = Some(<<"0", "5", "0">>)
    /\ Unwrap(oresult.val).max_redirect = Some(50)

\* C9 as stated: every string other than "-1" that is a valid non-negative integer
\* resolves to that integer.
C9_Original ==
    (MaxRedirsRead /\ IsSome(MaxRedirsArg) /\ IsNumeral(Unwrap(MaxRedirsArg))) =>
        locals.max_redirect = Bound(Some(NumeralValue(Unwrap(MaxRedirsArg))))

StepOrder ==
    <<"cacert_file", "connect_timeout", "glob_files", "html_dir", "max_redirect",
      "max_time", "to_entry", "variables">>
ArgOrder ==
    <<"cacert_file", "connect_timeout", "glob", "report_html", "max_redirects",
      "max_time", "to_entry", "variable">>
LocalOrder ==
    <<"cacert_file", "connect_timeout", "glob_files", "html_dir", "max_redirect",
      "timeout", "to_entry", "variables">>
OptsReturned == opc = "returned"
OptsFailed == ~oresult.ok /\ IsSome(oresult.err)

\* C11: parse_options runs its validations in the order CA-cert file,
\* connect-timeout, glob expansion, HTML report directory, max-redirs, max-time,
\* to-entry, variables, each at most once; it returns either an error and no
\* value, or a CliOptions whose every field is bound after all eight passed;
\* the first validation that fails returns at once: the validation that failed
\* is the last one performed, no later one has read its argument or bound its
\* value, and create_dir is called at most once, never before its own step and
\* never after a failure.
C11_FirstFailureAborts ==
    /\ Len(steps) <= Len(StepOrder)
    /\ steps = SubSeq(StepOrder, 1, Len(steps))
    /\ create_dir_calls <= 1
    /\ create_dir_calls = 1 => Len(steps) >= 4 /\ args.report_html = Read(Some("report"))
    /\ \A k \in 1..Len(StepOrder) :
         /\ args[ArgOrder[k]] # Unread <=> k <= Len(steps)
         /\ locals[LocalOrder[k]] # Unbound =>
              k <= Len(steps) /\ (k = Len(steps) => ~OptsFailed)
    /\ OptsFailed =>
         /\ OptsReturned
         /\ oresult.val = None
         /\ Len(steps) >= 1
         /\ locals.verbose = Unbound
    /\ oresult.ok =>
         /\ OptsReturned
         /\ oresult.err = None
         /\ steps = StepOrder
         /\ \A n \in DOMAIN locals : locals[n] # Unbound
         /\ oresult.val = Some(CliOptions(locals))
    /\ OptsReturned => OptsFailed \/ oresult.ok

\* max-redirs fails after the HTML report directory was created: the call
\* returns the error, and max-time, to-entry and variables are not performed.
C11_Witness ==
    /\ OptsReturned /\ OptsFailed
    /\ steps = SubSeq(StepOrder, 1, 5)
    /\ create_dir_calls = 1
    /\ locals.html_dir = Bound(Some("report"))
    /\ args.max_time = Unread /\ args.to_entry = Unread /\ args.variable = Unread

(***************************************************************************)
(* The variables file of a variables() call (checked under SpecVars).      *)
(***************************************************************************)
Min(S) == CHOOSE x \in S : \A y \in S : x <= y

\* A blank line, or one whose first non-whitespace character is "#".
BlankOrComment(raw) ==
    LET nonspace == {i \in 1..Len(raw) : ~IsSpace(raw[i])} IN
    nonspace = {} \/ raw[Min(nonspace)] = "#"

\* The lines of the file that cannot be parsed: not decodable as text, or
\* neither skipped nor a name=value assignment.
UnparsableLines ==
    {i \in 1..Len(FileLinesOf) :
        \/ FileLinesOf[i] = Undecodable
        \/ /\ ~BlankOrComment(FileLinesOf[i])
           /\ ~parse_variable(Trim(FileLinesOf[i])).ok}

\* The call got as far as the variables file: the environment was merged.
FileReached ==
    /\ vout # Pending
    /\ IsSome(vin.file)
    /\ EnvLoop(vin.env, 1, EmptyMap).ok

\* A missing file fails with the file-not-found error.
MissingFileFails ==
    (FileReached /\ ~Unwrap(vin.file).exists) =>
        vout = Err(CliError("Properties file does not exist", 0))

\* Without an unparsable line, each line that is not blank or a comment adds or
\* overwrites the entry of its name, in file order, and the others add none:
\* among the names no inline assignment overwrites, the mapping holds exactly
\* those the environment or such a line assigns, with the value of the last line.
LinesMergedInOrder ==
    (FileReached /\ Unwrap(vin.file).exists /\ UnparsableLines = {} /\ vout.ok) =>
        LET map == Unwrap(vout.val)
            assigned(name) ==
                {i \in 1..Len(FileLinesOf) :
                    /\ ~BlankOrComment(FileLinesOf[i])
                    /\ Unwrap(parse_variable(Trim(FileLinesOf[i])).val).name = name} IN
        \A name \in VariableNames \cup DOMAIN map :
            InlineIndexes(name) = {} =>
                /\ name \in DOMAIN map <=> (assigned(name) # {} \/ EnvIndexes(name) # {})
                /\ assigned(name) # {} =>
                     map[name] =
                       Unwrap(parse_variable(Trim(FileLinesOf[Max(assigned(name))])).val).value

\* The first unparsable line aborts the merge with the parse-failure error that
\* names its 1-based number and the file.
UnparsableLineNamed ==
    (FileReached /\ Unwrap(vin.file).exists /\ UnparsableLines # {}) =>
        vout = Err(CliError("Can not parse line of file", Min(UnparsableLines)))

\* The first unparsable line aborts the merge with an error.
UnparsableLineAborts ==
    (FileReached /\ Unwrap(vin.file).exists /\ UnparsableLines # {}) =>
        ~vout.ok /\ IsSome(vout.err)

\* C12: a variables file is handled line by line in file order: a missing file
\* fails with the file-not-found error; blank lines and lines whose first
\* non-whitespace character is "#" add no entry; each other line adds or
\* overwrites exactly one entry or, if it cannot be parsed, aborts the merge with
\* the parse-failure error naming the 1-based line number and the file path.
C12_VariablesFile ==
    /\ MissingFileFails
    /\ LinesMergedInOrder
    /\ UnparsableLineNamed

\* C12 without the content of the error: the unparsable line aborts the merge.
C12_ExceptErrorContent ==
    /\ MissingFileFails
    /\ LinesMergedInOrder
    /\ UnparsableLineAborts

(***************************************************************************)
(* The stages of a hurlfmt run (checked under SpecFmtFair).                *)
(***************************************************************************)
\* The stage a position of main belongs to, and the place of the stage in the
\* order AcquireInput, Parse, CheckMode | FormatMode, WriteOutput, Exit.
StageOf(at) ==
    CASE at \in {"get_matches", "standalone_check"} -> "Start"
      [] at \in {"input_check", "in_place_check", "read"} -> "AcquireInput"
      [] at = "parse" -> "Parse"
      [] at = "check_mode" -> "CheckMode"
      [] at = "format_mode" -> "FormatMode"
      [] at = "write_output" -> "WriteOutput"
      [] at = "exited" -> "Exit"
StageRank(stage) ==
    CASE stage = "Start" -> 0
      [] stage = "AcquireInput" -> 1
      [] stage = "Parse" -> 2
      [] stage \in {"CheckMode", "FormatMode"} -> 3
      [] stage = "WriteOutput" -> 4
      [] stage = "Exit" -> 5
\* The stage that performs an operation recorded in trace.
EventStage(e) ==
    CASE e \in {"atty_stdin", "print_help", "path_exists", "read"} -> "AcquireInput"
      [] e = "parse" -> "Parse"
      [] e = "lint" -> "CheckMode"
      [] e = "render" -> "FormatMode"
      [] e \in {"create", "write"} -> "WriteOutput"

\* What the run has done so far is in stage order, nothing twice, and not both
\* modes; what it has done implies the success of everything before it.
StagesInOrder ==
    /\ \A i, j \in 1..Len(trace) :
         i < j => /\ trace[i] # trace[j]
                  /\ StageRank(EventStage(trace[i])) <= StageRank(EventStage(trace[j]))
    /\ ~(Performed("lint") /\ Performed("render"))
    /\ \A i \in 1..Len(trace) : StageRank(EventStage(trace[i])) <= StageRank(StageOf(pc))
    /\ StageRank(StageOf(pc)) \in 2..4 => Performed("read") /\ obs.read = "yes"
    /\ StageRank(StageOf(pc)) \in 3..4 => Performed("parse") /\ obs.parse = "yes"
    /\ StageOf(pc) = "CheckMode" => matches.check
    /\ StageOf(pc) = "FormatMode" => ~matches.check
    /\ StageOf(pc) = "WriteOutput" =>
         /\ ~matches.check /\ ~Performed("lint")
         /\ Performed("render") /\ output # NoneV
    /\ Performed("parse") => Performed("read") /\ obs.read = "yes"
    /\ (Performed("lint") \/ Performed("render")) => Performed("parse") /\ obs.parse = "yes"
    /\ (Performed("create") \/ Performed("write")) => Performed("render")

\* A step stays in its stage, or enters the next stage of the path from the one
\* right before it, or exits.
StageStep ==
    LET from == StageOf(pc)
        to == StageOf(pc') IN
    to # from =>
        /\ StageRank(to) > StageRank(from)
        /\ to = "AcquireInput" => from = "Start"
        /\ to = "Parse" => from = "AcquireInput"
        /\ to \in {"CheckMode", "FormatMode"} => from = "Parse"
        /\ to = "WriteOutput" => from = "FormatMode"

\* C13: every hurlfmt run goes through the stages in the order AcquireInput,
\* Parse, one of CheckMode and FormatMode, WriteOutput, Exit: no stage is entered
\* twice or after a later one, a stage is entered only from the stage before it
\* on its path and after that one succeeded, and every run reaches process exit.
C13_StageOrder ==
    /\ []StagesInOrder
    /\ [][StageStep]_vars
    /\ <>Exited

\* A run that went through AcquireInput, Parse, FormatMode and WriteOutput and
\* exited.
C13_Witness ==
    /\ Exited
    /\ trace = <<"path_exists", "read", "parse", "render", "create", "write">>
    /\ exit = ProcessExit(0, "success")

(***************************************************************************)
(* The exit code of a hurlfmt run (checked under SpecFmt).                 *)
(***************************************************************************)
\* Everything the run needs for status 0 happened: the flag checks passed (those
\* of clap and those of main), the input was read and parsed, the check
\* modifier is absent, the render target is valid and WriteOutput completed.
FormattingCompleted ==
    /\ ~ClapConflict(matches)
    /\ ~StandaloneRuleBroken /\ ~InPlaceRuleBroken
    /\ Performed("read") /\ obs.read = "yes"
    /\ Performed("parse") /\ obs.parse = "yes"
    /\ ~matches.check
    /\ FormatOrText(matches) \in ValidFormats
    /\ Performed("write") /\ obs.write = "yes"
    /\ written = ExpectedDestination

\* The run ended at a failure inside write_output.
FailedInWriteOutput == exit \in {CreateFailed, WriteFailed}

NoDestinationTouched ==
    /\ created = NoneV
    /\ written = NoneV
    /\ ~Performed("create")
    /\ ~Performed("write")

\* C14 (as amended): a run exits with code 0 if and only if either the command
\* line asks for the help or version text (clap prints it and exits before
\* main's own code runs), or all of the following happened: the flag checks
\* passed, the input was read, the document parsed, the check modifier was
\* absent, the render target was one of text/json/html/ast, and WriteOutput
\* completed.  In every other terminating run the exit is non-zero, and no
\* destination file was created or overwritten unless the failure occurred
\* inside WriteOutput; a help or version run touches no destination either.
C14_ExitZero ==
    Exited =>
        /\ exit.code = 0 <=> (ClapDisplays(matches) \/ FormattingCompleted)
        /\ (exit.code # 0 /\ ~FailedInWriteOutput) => NoDestinationTouched
        /\ ClapDisplays(matches) => NoDestinationTouched /\ trace = <<>>

\* A formatting run that rendered json to the file named by the output option
\* and exited with code 0.
C14_Witness ==
    /\ Exited
    /\ exit = ProcessExit(0, "success")
    /\ FormattingCompleted
    /\ matches.format = "json"
    /\ created = "out.hurl" /\ written = "out.hurl"

\* C14 as stated: a run exits with code 0 if and only if the flag checks passed,
\* the input was read, the document parsed, the check modifier was absent, the
\* render target was valid and WriteOutput completed; every other terminating
\* run exits non-zero and, unless it failed inside WriteOutput, touched no
\* destination.
C14_Original ==
    Exited =>
        /\ exit.code = 0 <=> FormattingCompleted
        /\ (exit.code # 0 /\ ~FailedInWriteOutput) => NoDestinationTouched

====
